---- MODULE Spec2Model ----
(***************************************************************************)
(* A model of kernel-module-sort: the symbol-driven dependency resolver    *)
(* and the modinspect driver of src/src/main.rs, and the /proc/modules     *)
(* status-listing parser of src/src/live.rs.                               *)
(*                                                                         *)
(* Three specifications share the module:                                  *)
(*   SpecResolve  one call of resolve_dependency_tree on a working set     *)
(*   SpecInspect  one run of print_module_dependency_tree (modinspect)     *)
(*   SpecListing  one call of parse_module_listing (lsmod)                 *)
(* A process abort (a Rust panic, or the stack running out) is an outcome  *)
(* of its own, distinct from a returned value.                             *)
(***************************************************************************)
EXTENDS Integers, Sequences, FiniteSets, TLC

VARIABLES
    all_modules,    \* resolver: the working set, Vec<ModuleBrief>
    for_module_name,\* resolver: the target name
    rpc,            \* resolver: "ready" before the call, "done" after
    resolved,       \* resolver: the call's outcome

    kernel_file,    \* modinspect: the file at the --kernel path
    modules_pattern,\* modinspect: the --modules pattern, "well_formed" or "malformed"
    candidates,     \* modinspect: what the glob iterator yields, in order
    module_name,    \* modinspect: the --target name
    next_entry,     \* modinspect: index of the next glob entry to load
    kernel_brief,   \* modinspect: the kernel image's ModuleBrief
    kernel_modules, \* modinspect: the briefs collected so far
    log,            \* modinspect: paths whose load error was printed
    module_tree,    \* modinspect: wireguard_module_tree, the resolver's outcome
    printed,        \* modinspect: the paths printed, in order
    ipc,            \* modinspect: position in print_module_dependency_tree

    lines,          \* lsmod: the fields the listing text was written from
    data,           \* lsmod: the listing text not consumed yet
    modules,        \* lsmod: the KernelModule records collected by many0
    lpc             \* lsmod: "parsing", "returned" or "panicked"

resolveVars == <<all_modules, for_module_name, rpc, resolved>>
inspectVars == <<kernel_file, modules_pattern, candidates, module_name, next_entry, kernel_brief,
                 kernel_modules, log, module_tree, printed, ipc>>
listingVars == <<lines, data, modules, lpc>>
vars == <<resolveVars, inspectVars, listingVars>>

(***************************************************************************)
(* Bounds of the model.                                                    *)
(***************************************************************************)
MaxModules == 3
MaxCandidates == 2
MaxLines == 2

\* Sequences over S of length at most n.
SeqUpTo(S, n) == UNION {[1..k -> S] : k \in 0..n}

\* The elements of a sequence.
Range(s) == {s[i] : i \in DOMAIN s}

\* Index of the first element of s satisfying Test, 0 when there is none.
FirstIndex(s, Test(_)) ==
    IF \E i \in DOMAIN s : Test(s[i])
    THEN CHOOSE i \in DOMAIN s : Test(s[i]) /\ \A j \in 1..(i - 1) : ~Test(s[j])
    ELSE 0

(***************************************************************************)
(* ModuleBrief and resolve_dependency_tree (main.rs).                      *)
(***************************************************************************)
\* struct ModuleBrief. A path is <<directory, file name>>.
ModuleBrief(name, path, provides, references) ==
    [name |-> name, path |-> path,
     provides_symbols |-> provides, references_symbols |-> references]

\* Vec::contains
Contains(v, x) == \E i \in DOMAIN v : v[i] = x

\* The filter closure of referenced_modules: m provides a symbol that
\* for_module references.
ProvidesFor(m, for_module) ==
    \E i \in DOMAIN for_module.references_symbols :
        Contains(m.provides_symbols, for_module.references_symbols[i])

\* "Remove duplicates from the list but preserve the order": keeps the first
\* entry of each name.
RECURSIVE UniqueByNameFrom(_, _, _)
UniqueByNameFrom(sorted, seen, unique) ==
    IF sorted = <<>> THEN unique
    ELSE LET module == Head(sorted)
         IN IF module.name \notin seen
            THEN UniqueByNameFrom(Tail(sorted), seen \cup {module.name},
                                  Append(unique, module))
            ELSE UniqueByNameFrom(Tail(sorted), seen, unique)

\* A mutation of the duplicate removal: it lets a repeated name through.
UniqueByNameKeepAll(sorted) == sorted

\* The sequence back to front.
Reverse(s) == [i \in DOMAIN s |-> s[Len(s) + 1 - i]]

\* A mutation of the duplicate removal: it keeps the last entry of each name.
UniqueByNameKeepLast(sorted) ==
    Reverse(UniqueByNameFrom(Reverse(sorted), {}, <<>>))

UniqueByName(sorted) == UniqueByNameFrom(sorted, {}, <<>>)

\* The call stack is finite.  A chain of nested calls longer than the working
\* set names some module twice, and a call nested in a call with the same
\* arguments nests again without end: such a chain runs the stack out.  A
\* chain without a repeated name is never longer than the working set.
StackDepth(all) == Len(all) + 1

Returned(ms) == [outcome |-> "returned", modules |-> ms]
Aborted(why) == [outcome |-> why, modules |-> <<>>]

\* all_modules.iter().find(|m| m.name == for_module_name): 0 stands for None.
FindByName(all, name) == FirstIndex(all, LAMBDA m : m.name = name)

\* resolve_dependency_tree at nesting depth `depth`.
RECURSIVE resolve_dependency_tree(_, _, _)
RECURSIVE ResolveEach(_, _, _, _)

\* The loop over referenced_modules: appends each nested call's result to
\* sorted_modules; an abort in a nested call ends the process.
ResolveEach(all, referenced, sorted, depth) ==
    IF referenced = <<>> THEN Returned(sorted)
    ELSE LET r == resolve_dependency_tree(all, Head(referenced).name, depth + 1)
         IN IF r.outcome # "returned" THEN r
            ELSE ResolveEach(all, Tail(referenced), sorted \o r.modules, depth)

resolve_dependency_tree(all, name, depth) ==
    IF depth > StackDepth(all) THEN Aborted("stack_overflow")
    ELSE LET found == FindByName(all, name)
         IN IF found = 0 THEN Aborted("panic_unwrap_none")
            ELSE LET for_module == all[found]
                     referenced_modules ==
                         SelectSeq(all, LAMBDA m : ProvidesFor(m, for_module))
                     nested == ResolveEach(all, referenced_modules, <<>>, depth)
                 IN IF nested.outcome # "returned" THEN nested
                    ELSE Returned(UniqueByName(Append(nested.modules, for_module)))

(***************************************************************************)
(* SpecResolve: one call of resolve_dependency_tree.                       *)
(***************************************************************************)
Names == {"a", "b", "c"}
MissingName == "zz"
SymLists == {<<>>, <<"s">>, <<"t">>}

\* A working set: every combination of name and symbol lists, each module at
\* a path of its own.
WorkingSets ==
    {[i \in DOMAIN ws |->
        ModuleBrief(ws[i][1], <<i, ws[i][1]>>, ws[i][2], ws[i][3])] :
     ws \in SeqUpTo(Names \X SymLists \X SymLists, MaxModules)}

\* The diamond: A references symbols of B and C, which both reference a
\* symbol of D.
Diamond ==
    <<ModuleBrief("A", <<1, "A">>, <<>>, <<"sb", "sc">>),
      ModuleBrief("B", <<2, "B">>, <<"sb">>, <<"sd">>),
      ModuleBrief("C", <<3, "C">>, <<"sc">>, <<"sd">>),
      ModuleBrief("D", <<4, "D">>, <<"sd">>, <<>>)>>

Resolve ==
    /\ rpc = "ready"
    /\ resolved' = resolve_dependency_tree(all_modules, for_module_name, 1)
    /\ rpc' = "done"
    /\ UNCHANGED <<all_modules, for_module_name, inspectVars, listingVars>>

ResolveInit ==
    /\ all_modules \in WorkingSets \cup {Diamond}
    /\ for_module_name \in Names \cup {"A", MissingName}
    /\ rpc = "ready"
    /\ resolved = Aborted("not_called")
    /\ kernel_file = <<>> /\ modules_pattern = "" /\ candidates = <<>>
    /\ module_name = ""
    /\ next_entry = 0 /\ kernel_brief = <<>> /\ kernel_modules = <<>>
    /\ log = <<>> /\ module_tree = Aborted("not_called")
    /\ printed = <<>> /\ ipc = "idle"
    /\ lines = <<>> /\ data = <<>> /\ modules = <<>> /\ lpc = "idle"

ResolveNext == Resolve

SpecResolve == ResolveInit /\ [][ResolveNext]_vars

(***************************************************************************)
(* Claims about resolve_dependency_tree, checked under SpecResolve.        *)
(***************************************************************************)
Done == rpc = "done"
HasReturned == Done /\ resolved.outcome = "returned"

\* Position of module m in the returned sequence, 0 when it is not there.
PositionOf(m) == FirstIndex(resolved.modules, LAMBDA x : x = m)

\* Module i of the working set is the first one of its name.
FirstOfItsName(i) == FindByName(all_modules, all_modules[i].name) = i

\* C1 as stated: when the call returns, every module of the working set that
\* provides a symbol referenced by a module M of the returned sequence stands
\* in the returned sequence strictly before M (names need not be unique).
C1_EveryProviderPrecedes ==
    HasReturned =>
        \A k \in DOMAIN resolved.modules : \A i \in DOMAIN all_modules :
            ProvidesFor(all_modules[i], resolved.modules[k])
                => /\ PositionOf(all_modules[i]) # 0
                   /\ PositionOf(all_modules[i]) < k

\* C1 amended: when the call returns, every module of the working set that
\* is the first of its name and provides a symbol referenced by a module M
\* of the returned sequence stands in the returned sequence strictly before M.
C1_FirstNamedProviderPrecedes ==
    HasReturned =>
        \A k \in DOMAIN resolved.modules : \A i \in DOMAIN all_modules :
            (FirstOfItsName(i) /\ ProvidesFor(all_modules[i], resolved.modules[k]))
                => /\ PositionOf(all_modules[i]) # 0
                   /\ PositionOf(all_modules[i]) < k

\* A returned sequence in which a module has a provider before it, from a
\* working set that also holds a provider shadowed by an earlier module of
\* the same name.
C1_Witness ==
    /\ HasReturned
    /\ \E k \in DOMAIN resolved.modules : \E i, j \in DOMAIN all_modules :
          /\ FirstOfItsName(i) /\ ~FirstOfItsName(j)
          /\ ProvidesFor(all_modules[i], resolved.modules[k])
          /\ ProvidesFor(all_modules[j], resolved.modules[k])
          /\ PositionOf(all_modules[i]) \in 1..(k - 1)

\* The post-order output without any duplicate removal: the outputs of the
\* modules satisfying the target's references, in working-set order, then
\* the target.  Defined where the traversal ends.
RECURSIVE PostOrder(_, _)
RECURSIVE PostOrderEach(_, _)
PostOrderEach(all, referenced) ==
    IF referenced = <<>> THEN <<>>
    ELSE PostOrder(all, Head(referenced).name) \o PostOrderEach(all, Tail(referenced))
PostOrder(all, name) ==
    LET m == all[FindByName(all, name)]
    IN Append(PostOrderEach(all, SelectSeq(all, LAMBDA x : ProvidesFor(x, m))), m)

\* The entries of s whose name no earlier entry has.
FirstOfEachName(s) ==
    LET keep == {i \in DOMAIN s : \A j \in 1..(i - 1) : s[j].name # s[i].name}
        rank(i) == Cardinality({j \in keep : j <= i})
    IN [n \in 1..Cardinality(keep) |-> s[CHOOSE i \in keep : rank(i) = n]]

\* C2: when the call returns, no two entries of the returned sequence have
\* the same name, and the sequence is the post-order output with only the
\* first entry of each name kept (so the D of a diamond stands once, where
\* the post-order output first has it).
C2_Deduplicated ==
    HasReturned =>
        /\ \A i, j \in DOMAIN resolved.modules :
              i # j => resolved.modules[i].name # resolved.modules[j].name
        /\ resolved.modules = FirstOfEachName(PostOrder(all_modules, for_module_name))

\* The diamond resolved for A: the post-order output has D twice, the
\* returned sequence once, in first place.
C2_Witness ==
    /\ HasReturned
    /\ all_modules = Diamond /\ for_module_name = "A"
    /\ Cardinality({i \in DOMAIN PostOrder(all_modules, "A") :
                      PostOrder(all_modules, "A")[i].name = "D"}) = 2
    /\ Cardinality({i \in DOMAIN resolved.modules :
                      resolved.modules[i].name = "D"}) = 1
    /\ resolved.modules[1].name = "D"
    /\ Len(resolved.modules) = 4

\* C3 as stated: a call whose target names no module of the working set ends
\* in a NotFound error returned to the caller, never in a process abort.
C3_MissingTargetIsNotFound ==
    (Done /\ FindByName(all_modules, for_module_name) = 0)
        => resolved.outcome = "not_found_error"

\* Module i references a symbol that module j provides and no other module
\* of the working set provides.
ReferencesOnlyFrom(i, j) ==
    \E n \in DOMAIN all_modules[i].references_symbols :
        LET s == all_modules[i].references_symbols[n]
        IN \A k \in DOMAIN all_modules :
              Contains(all_modules[k].provides_symbols, s) <=> k = j

\* The target A references a symbol only B provides, and B references a
\* symbol only A provides.
MutualCycle ==
    \E i, j \in DOMAIN all_modules :
        /\ i # j /\ all_modules[i].name # all_modules[j].name
        /\ FindByName(all_modules, for_module_name) = i /\ FirstOfItsName(j)
        /\ ReferencesOnlyFrom(i, j) /\ ReferencesOnlyFrom(j, i)

\* C4 as stated: for a target on a reference cycle the call ends with a
\* CycleDetected error outcome.
C4_CycleIsDetected ==
    (Done /\ MutualCycle) => resolved.outcome = "cycle_detected_error"

\* The target references a symbol it provides itself, and no other module
\* provides any symbol the target references.
SelfSatisfiedOnly ==
    LET t == FindByName(all_modules, for_module_name)
    IN /\ t # 0
       /\ ProvidesFor(all_modules[t], all_modules[t])
       /\ \A k \in DOMAIN all_modules :
             ProvidesFor(all_modules[k], all_modules[t]) => k = t

\* C10 as stated: a target whose only satisfied reference is one it provides
\* itself resolves to the one-element sequence holding the target.
C10_SelfSatisfiedResolvesAlone ==
    (Done /\ SelfSatisfiedOnly)
        => resolved = Returned(<<all_modules[FindByName(all_modules, for_module_name)]>>)


(***************************************************************************)
(* read_to_module and print_module_dependency_tree (main.rs).              *)
(***************************************************************************)
\* A file on disk: its path <<directory, file name>>, what infer::get_from_path
\* answers for it ("io_error" for Err, "unknown" for Ok(None), else the MIME
\* type), whether reading or decompressing it succeeds, whether the bytes
\* parse as an object file, and the object's symbol table.  A glob entry is
\* such a file, or a GlobError (glob_ok = FALSE).
File(path, sniff, reads, parses, symbols) ==
    [path |-> path, sniff |-> sniff, reads |-> reads, parses |-> parses,
     symbols |-> symbols, glob_ok |-> TRUE]
GlobError(path) ==
    [path |-> path, sniff |-> "unknown", reads |-> FALSE, parses |-> FALSE,
     symbols |-> <<>>, glob_ok |-> FALSE]

\* The arms of the match on mime_type() that produce binary_data.
RawObjectTypes == {"application/x-executable",
                   "application/vnd.microsoft.portable-executable"}
CompressedTypes == {"application/zstd", "application/x-xz"}

\* A symbol of the parsed object: name, whether sym.name() yields it, kind,
\* and whether sym.is_global().
Symbol(name, named, kind, global) ==
    [name |-> name, named |-> named, kind |-> kind, global |-> global]

\* The filter_map closure: the SymbolBrief of a symbol, if it has one.
\* Global symbols of kind Unknown are References, other globals Provides.
Classified(sym) == sym.global
DirectionOf(sym) == IF sym.kind = "Unknown" THEN "References" ELSE "Provides"

\* all_symbols filtered by direction and mapped to the names.
SymbolNames(symbols, direction) ==
    LET briefs == SelectSeq(symbols,
                    LAMBDA sym : Classified(sym) /\ DirectionOf(sym) = direction)
    IN [i \in DOMAIN briefs |-> briefs[i].name]

\* read_to_module: "panic" when an unwrap or the panic! of the match is hit,
\* "err" when a `?` returns the error, "ok" with the ModuleBrief otherwise.
read_to_module(file) ==
    IF file.sniff \in {"io_error", "unknown"}
    THEN [result |-> "panic", why |-> "unwrap on the sniffed type"]
    ELSE IF file.sniff \notin RawObjectTypes \cup CompressedTypes
    THEN [result |-> "panic", why |-> "Unknown file type"]
    ELSE IF ~file.reads THEN [result |-> "err", why |-> "read"]
    ELSE IF ~file.parses THEN [result |-> "err", why |-> "parse"]
    ELSE IF \E i \in DOMAIN file.symbols :
               Classified(file.symbols[i]) /\ ~file.symbols[i].named
    THEN [result |-> "panic", why |-> "unwrap on the symbol name"]
    ELSE [result |-> "ok",
          module |-> ModuleBrief(file.path[2], file.path,
                                 SymbolNames(file.symbols, "Provides"),
                                 SymbolNames(file.symbols, "References"))]

\* The name the final loop leaves out: the literal "vmlinux".
SuppressedName(kernel) == "vmlinux"

\* let kernel_brief = read_to_module(PathBuf::from(kernel_path)).unwrap();
LoadKernel ==
    /\ ipc = "start"
    /\ LET r == read_to_module(kernel_file)
       IN IF r.result = "ok"
          THEN /\ kernel_brief' = r.module
               /\ ipc' = "expanding"
          ELSE /\ kernel_brief' = kernel_brief
               /\ ipc' = "aborted_kernel"
    /\ UNCHANGED <<kernel_file, modules_pattern, candidates, module_name, next_entry,
                   kernel_modules, log, module_tree, printed,
                   resolveVars, listingVars>>

\* glob(modules_glob_pattern.as_str()).expect("Failed to read glob pattern"):
\* a pattern that glob rejects (a PatternError) is a panic, before any entry
\* is looked at.
ExpandGlob ==
    /\ ipc = "expanding"
    /\ ipc' = IF modules_pattern = "well_formed" THEN "globbing" ELSE "aborted_glob"
    /\ UNCHANGED <<kernel_file, modules_pattern, candidates, module_name,
                   next_entry, kernel_brief, kernel_modules, log, module_tree,
                   printed, resolveVars, listingVars>>

\* One entry of the glob iterator through the filter_map closure.
LoadCandidate ==
    /\ ipc = "globbing"
    /\ next_entry \in DOMAIN candidates
    /\ LET entry == candidates[next_entry]
           r == read_to_module(entry)
       IN IF ~entry.glob_ok
          THEN /\ log' = Append(log, entry.path)
               /\ next_entry' = next_entry + 1
               /\ UNCHANGED <<kernel_modules, ipc>>
          ELSE IF r.result = "panic"
          THEN /\ ipc' = "aborted_candidate"
               /\ UNCHANGED <<kernel_modules, log, next_entry>>
          ELSE IF r.result = "err"
          THEN /\ log' = Append(log, entry.path)
               /\ next_entry' = next_entry + 1
               /\ UNCHANGED <<kernel_modules, ipc>>
          ELSE /\ kernel_modules' = Append(kernel_modules, r.module)
               /\ next_entry' = next_entry + 1
               /\ UNCHANGED <<log, ipc>>
    /\ UNCHANGED <<kernel_file, modules_pattern, candidates, module_name, kernel_brief,
                   module_tree, printed,
                   resolveVars, listingVars>>

\* kernel_plus_all_modules and the call of resolve_dependency_tree.
ResolveTree ==
    /\ ipc = "globbing"
    /\ next_entry = Len(candidates) + 1
    /\ LET kernel_plus_all_modules == kernel_modules \o <<kernel_brief>>
           r == resolve_dependency_tree(kernel_plus_all_modules, module_name, 1)
       IN /\ module_tree' = r
          /\ ipc' = IF r.outcome = "returned" THEN "printing" ELSE "aborted_resolve"
    /\ UNCHANGED <<kernel_file, modules_pattern, candidates, module_name, next_entry,
                   kernel_brief, kernel_modules, log, printed,
                   resolveVars, listingVars>>

\* The final loop: prints the path of every module not named "vmlinux".
PrintTree ==
    /\ ipc = "printing"
    /\ LET shown == SelectSeq(module_tree.modules,
                       LAMBDA module : module.name # SuppressedName(kernel_brief))
       IN printed' = [i \in DOMAIN shown |-> shown[i].path]
    /\ ipc' = "printed"
    /\ UNCHANGED <<kernel_file, modules_pattern, candidates, module_name, next_entry,
                   kernel_brief, kernel_modules, log, module_tree,
                   resolveVars, listingVars>>

(***************************************************************************)
(* SpecInspect: one run of modinspect.                                     *)
(***************************************************************************)
Sniffs == RawObjectTypes \cup CompressedTypes
            \cup {"application/gzip", "unknown", "io_error"}

\* Symbol tables of the candidates: k is a symbol of the kernel image.
ModuleSymbolTables ==
    {<<>>,
     <<Symbol("k", TRUE, "Unknown", TRUE), Symbol("s", TRUE, "Text", TRUE),
       Symbol("loc", TRUE, "Text", FALSE)>>,
     <<Symbol("s", TRUE, "Unknown", TRUE), Symbol("loc", FALSE, "Unknown", FALSE)>>,
     <<Symbol("", FALSE, "Data", TRUE)>>}
KernelSymbolTables ==
    {<<Symbol("k", TRUE, "Text", TRUE)>>}

CandidateNames == {"a.ko", "b.ko", "vmlinux"}
KernelNames == {"vmlinux", "vmlinuz"}

\* The files a glob entry can be: loadable objects with each symbol table,
\* files that fail to read or to parse, files of each sniffed type, and
\* entries the glob iterator could not read.
CandidateFilesAt(dir) ==
    UNION {
      {File(<<dir, n>>, "application/x-executable", TRUE, TRUE, t) :
          t \in ModuleSymbolTables}
      \cup {File(<<dir, n>>, sn, ok, ok, <<>>) : sn \in Sniffs, ok \in BOOLEAN}
      \cup {File(<<dir, n>>, "application/x-xz", TRUE, FALSE, <<>>),
            GlobError(<<dir, n>>)}
      : n \in CandidateNames}

KernelFiles ==
    {File(<<0, n>>, sn, TRUE, ps, t) :
        n \in KernelNames, sn \in {"application/x-executable", "unknown"},
        ps \in BOOLEAN, t \in KernelSymbolTables}

CandidateLists ==
    UNION {{c \in [1..k -> CandidateFilesAt(1) \cup CandidateFilesAt(2)] :
               \A i \in 1..k : c[i].path[1] = i} : k \in 0..MaxCandidates}

InspectInit ==
    /\ all_modules = <<>> /\ for_module_name = "" /\ rpc = "idle"
    /\ resolved = Aborted("not_called")
    /\ lines = <<>> /\ data = <<>> /\ modules = <<>> /\ lpc = "idle"
    /\ kernel_file \in KernelFiles
    /\ modules_pattern \in {"well_formed", "malformed"}
    /\ candidates \in (IF modules_pattern = "well_formed" THEN CandidateLists
                       ELSE {<<>>})
    /\ module_name \in CandidateNames \cup KernelNames \cup {MissingName}
    /\ next_entry = 1
    /\ kernel_brief = <<>>
    /\ kernel_modules = <<>>
    /\ log = <<>>
    /\ module_tree = Aborted("not_called")
    /\ printed = <<>>
    /\ ipc = "start"

InspectNext == LoadKernel \/ ExpandGlob \/ LoadCandidate \/ ResolveTree \/ PrintTree

SpecInspect == InspectInit /\ [][InspectNext]_vars

(***************************************************************************)
(* Claims about modinspect, checked under SpecInspect.                     *)
(***************************************************************************)
\* A glob entry whose sniffed type is no raw object, zstd or xz type, or
\* that has no sniffable type.
Unrecognised(entry) ==
    /\ entry.glob_ok
    /\ entry.sniff \notin RawObjectTypes \cup CompressedTypes \cup {"io_error"}

\* C5 as stated: a candidate of an unrecognised type does not abort the run;
\* once the loop is past it, its error is logged and the run goes on.
C5_UnrecognisedCandidateIsSkipped ==
    \A i \in DOMAIN candidates :
        Unrecognised(candidates[i]) =>
            /\ ~(ipc = "aborted_candidate" /\ next_entry = i)
            /\ (next_entry > i => Contains(log, candidates[i].path))

\* C6 as stated: the printed lines are the paths of the resolved sequence in
\* order with the kernel image's record, and no other, left out.
C6_KernelImageSuppressed ==
    ipc = "printed" =>
        LET shown == SelectSeq(module_tree.modules, LAMBDA m : m # kernel_brief)
        IN printed = [i \in DOMAIN shown |-> shown[i].path]

(***************************************************************************)
(* The status-listing parser (live.rs).  Text is a sequence of characters. *)
(***************************************************************************)
LF == "\n"
CR == "\r"
Letters == {"a", "b", "c", "d", "e", "f", "g", "h", "i", "j", "k", "l", "m", "n", "o", "p", "q", "r", "s", "t", "u", "v", "w", "x", "y", "z",
            "A", "B", "C", "D", "E", "F", "G", "H", "I", "J", "K", "L", "M", "N", "O", "P", "Q", "R", "S", "T", "U", "V", "W", "X", "Y", "Z"}
Digits == {"0", "1", "2", "3", "4", "5", "6", "7", "8", "9"}
Alphanumerics == Letters \cup Digits

\* What a parser returns: Ok((rest, out)) or Err(Err::Error(_)).
\* Panicked stands for a panic! inside the parser.
Ok(rest, out) == [ok |-> TRUE, panic |-> FALSE, rest |-> rest, out |-> out]
Err == [ok |-> FALSE, panic |-> FALSE, rest |-> <<>>, out |-> <<>>]
Panicked == [ok |-> FALSE, panic |-> TRUE, rest |-> <<>>, out |-> <<>>]

Drop(input, n) == SubSeq(input, n + 1, Len(input))
Take(input, n) == SubSeq(input, 1, n)

\* Length of the longest prefix of input made of characters of Class.
RunLength(input, Class) ==
    LET others == {i \in DOMAIN input : input[i] \notin Class}
    IN IF others = {} THEN Len(input)
       ELSE (CHOOSE i \in others : \A j \in others : i <= j) - 1

\* take_while1, alpha1, alphanumeric1: one or more characters of Class.
take_while1(input, Class) ==
    LET n == RunLength(input, Class)
    IN IF n = 0 THEN Err ELSE Ok(Drop(input, n), Take(input, n))
alpha1(input) == take_while1(input, Letters)
alphanumeric1(input) == take_while1(input, Alphanumerics)
space(input) == take_while1(input, {" "})

\* alpha0: zero or more letters.
alpha0(input) ==
    LET n == RunLength(input, Letters)
    IN Ok(Drop(input, n), Take(input, n))

\* recognize(pair(alpha1, many0_count(alt((alphanumeric1, tag("_")))))).
module_name_parser(input) ==
    LET first == alpha1(input)
    IN IF ~first.ok THEN Err
       ELSE LET n == Len(first.out)
                      + RunLength(first.rest, Alphanumerics \cup {"_"})
            IN Ok(Drop(input, n), Take(input, n))

\* recognize(many0_count(alt((alphanumeric1, tag("_"), tag(","), tag("-"))))).
dependents_parser(input) ==
    LET n == RunLength(input, Alphanumerics \cup {"_", ",", "-"})
    IN Ok(Drop(input, n), Take(input, n))

\* A decimal numeral without its leading zeros: the value of the numeral.
RECURSIVE Canonical(_)
Canonical(digits) ==
    IF Len(digits) > 1 /\ Head(digits) = "0" THEN Canonical(Tail(digits))
    ELSE digits

DigitValue(c) == CHOOSE v \in 0..9 : <<"0", "1", "2", "3", "4", "5", "6", "7", "8", "9">>[v + 1] = c

\* a <= b for canonical numerals.
NumeralLeq(a, b) ==
    \/ Len(a) < Len(b)
    \/ /\ Len(a) = Len(b)
       /\ \/ a = b
          \/ \E i \in DOMAIN a :
                /\ DigitValue(a[i]) < DigitValue(b[i])
                /\ \A j \in 1..(i - 1) : a[j] = b[j]

U64Max == <<"1", "8", "4", "4", "6", "7", "4", "4", "0", "7", "3", "7", "0", "9", "5", "5", "1", "6", "1", "5">>
U32Max == <<"4", "2", "9", "4", "9", "6", "7", "2", "9", "5">>

\* nom's u64 and u32: the digits at the front, an error when there is none or
\* when checked_mul / checked_add overflows the type.  The value is kept as
\* its canonical numeral.
unsigned(input, max) ==
    LET n == RunLength(input, Digits)
    IN IF n = 0 THEN Err
       ELSE IF ~NumeralLeq(Canonical(Take(input, n)), max) THEN Err
       ELSE Ok(Drop(input, n), Canonical(Take(input, n)))
nom_u64(input) == unsigned(input, U64Max)
nom_u32(input) == unsigned(input, U32Max)

\* not_line_ending: up to the first CR or LF; a CR that no LF follows is an
\* error.
not_line_ending(input) ==
    LET n == RunLength(input, {c \in Range(input) : c \notin {CR, LF}})
    IN IF n = Len(input) THEN Ok(<<>>, input)
       ELSE IF input[n + 1] = CR /\ ~(n + 2 <= Len(input) /\ input[n + 2] = LF)
       THEN Err
       ELSE Ok(Drop(input, n), Take(input, n))

\* line_ending: "\n" or "\r\n".
line_ending(input) ==
    IF Len(input) >= 1 /\ input[1] = LF THEN Ok(Drop(input, 1), <<LF>>)
    ELSE IF Len(input) >= 2 /\ input[1] = CR /\ input[2] = LF
    THEN Ok(Drop(input, 2), <<CR, LF>>)
    ELSE Err

\* Option<Vec<String>>
None == [some |-> FALSE, list |-> <<>>]
Some(list) == [some |-> TRUE, list |-> list]

\* str::split(','): the pieces between the commas, empty ones included.
RECURSIVE Split(_)
Split(text) ==
    LET n == RunLength(text, {c \in Range(text) : c # ","})
    IN IF n = Len(text) THEN <<text>>
       ELSE <<Take(text, n)>> \o Split(Drop(text, n + 1))

\* A mutation of the dependents conversion: the empty pieces are kept.
DependentsKeepingEmpty(dependents) ==
    IF dependents = <<"-">> THEN None ELSE Some(Split(dependents))

\* The dependents field of KernelModule.
Dependents(dependents) ==
    IF dependents = <<"-">> THEN None
    ELSE Some(SelectSeq(Split(dependents), LAMBDA piece : piece # <<>>))

Live == <<"L", "i", "v", "e">>
Loading == <<"L", "o", "a", "d", "i", "n", "g">>
Unloading == <<"U", "n", "l", "o", "a", "d", "i", "n", "g">>

\* The match on state: the ModuleState, or "panic" for any other token.
ModuleState(state) ==
    IF state = Live THEN "Live"
    ELSE IF state = Loading THEN "Loading"
    ELSE IF state = Unloading THEN "Unloading"
    ELSE "panic"

\* struct KernelModule
KernelModule(name, size, refs, dependents, state) ==
    [name |-> name, size |-> size, refs |-> refs,
     dependents |-> dependents, state |-> state]

\* The parsers of the tuple in order, each on what the one before left; the
\* outputs by position.  Stops at the first error.
RECURSIVE Tuple(_, _, _)
Tuple(input, position, outs) ==
    IF position > 12 THEN Ok(input, outs)
    ELSE LET r == CASE position = 1 -> module_name_parser(input)
                    [] position \in {2, 4, 6, 8, 10} -> space(input)
                    [] position = 3 -> nom_u64(input)
                    [] position = 5 -> nom_u32(input)
                    [] position = 7 -> dependents_parser(input)
                    [] position = 9 -> alpha1(input)
                    [] position = 11 -> alphanumeric1(input)
                    [] position = 12 ->
                         LET a == alpha0(input)
                             b == not_line_ending(a.rest)
                         IN IF b.ok THEN Ok(b.rest, <<a.out, b.out>>) ELSE Err
         IN IF ~r.ok THEN Err ELSE Tuple(r.rest, position + 1, Append(outs, r.out))

\* The body of module_status_line after the tuple: a panic for an unknown
\* state token, else the KernelModule and the rest of the input.
StatusOf(t) ==
    IF ~t.ok THEN Err
    ELSE IF ModuleState(t.out[9]) = "panic" THEN Panicked
    ELSE Ok(t.rest, KernelModule(t.out[1], t.out[3], t.out[5],
                                 Dependents(t.out[7]), ModuleState(t.out[9])))

module_status_line(input) == StatusOf(Tuple(input, 1, <<>>))

\* terminated(module_status_line, line_ending)
Terminated(l, e) == IF e.ok THEN Ok(e.rest, l.out) ELSE Err
TerminatedAfter(l) == IF ~l.ok THEN l ELSE Terminated(l, line_ending(l.rest))
terminated_line(input) == TerminatedAfter(module_status_line(input))

\* One turn of the many0 loop on the result r of its parser: a parsed line is
\* pushed; at the first line that does not parse, many0 returns what it has
\* and the unwrap yields it; a panic inside the line parser ends the process.
Many0Turn(r) ==
    IF r.panic
    THEN /\ lpc' = "panicked"
         /\ UNCHANGED <<data, modules>>
    ELSE IF ~r.ok
    THEN /\ lpc' = "returned"
         /\ UNCHANGED <<data, modules>>
    ELSE /\ modules' = Append(modules, r.out)
         /\ data' = r.rest
         /\ lpc' = "parsing"

\* parse_module_listing, one line at a time.
ParseLine ==
    /\ lpc = "parsing"
    /\ Many0Turn(terminated_line(data))
    /\ UNCHANGED <<lines, resolveVars, inspectVars>>

(***************************************************************************)
(* SpecListing: one call of parse_module_listing.                          *)
(***************************************************************************)
\* The fields a line of the listing is written from.  dependents is the "-"
\* placeholder (dash) or the pieces between the commas.
Line(name, size, refs, dash, pieces, state, address, trailing, ending, gap) ==
    [name |-> name, size |-> size, refs |-> refs, dash |-> dash,
     pieces |-> pieces, state |-> state, address |-> address,
     trailing |-> trailing, ending |-> ending, gap |-> gap]

RECURSIVE JoinWithCommas(_)
JoinWithCommas(pieces) ==
    IF pieces = <<>> THEN <<>>
    ELSE IF Len(pieces) = 1 THEN pieces[1]
    ELSE pieces[1] \o <<",">> \o JoinWithCommas(Tail(pieces))

\* The text of a line.
LineText(l) ==
    l.name \o l.gap \o l.size \o l.gap \o l.refs \o l.gap
      \o (IF l.dash THEN <<"-">> ELSE JoinWithCommas(l.pieces)) \o l.gap
      \o l.state \o l.gap \o l.address \o l.trailing \o l.ending

RECURSIVE ListingText(_)
ListingText(ls) ==
    IF ls = <<>> THEN <<>> ELSE LineText(Head(ls)) \o ListingText(Tail(ls))

\* "ext4 1015808 1 - Live 0x0000000000000000", shortened.
PlainLine ==
    Line(<<"e", "x", "t", "4">>, <<"7">>, <<"1">>, TRUE, <<>>, Live, <<"0", "x", "0">>, <<>>, <<LF>>, <<" ">>)

\* The plain line with one field changed.
LineChoices ==
    {PlainLine}
    \cup {[PlainLine EXCEPT !.name = n] : n \in {<<"x", "_", "1">>, <<"4", "x">>}}
    \cup {[PlainLine EXCEPT !.size = n] : n \in {U64Max, <<"1", "8", "4", "4", "6", "7", "4", "4", "0", "7", "3", "7", "0", "9", "5", "5", "1", "6", "1", "6">>}}
    \cup {[PlainLine EXCEPT !.refs = n] : n \in {U32Max, <<"4", "2", "9", "4", "9", "6", "7", "2", "9", "6">>}}
    \cup {[PlainLine EXCEPT !.dash = FALSE, !.pieces = p] :
             p \in {<<<<"b">>>>, <<<<"b">>, <<>>>>, <<<<"b">>, <<"c", "_", "2">>, <<>>>>,
                    <<<<"b">>, <<>>, <<"c">>>>, <<<<>>, <<>>>>,
                    <<<<"b", "-", "c">>>>, <<<<"1", "b">>>>}}
    \cup {[PlainLine EXCEPT !.state = st] : st \in {Loading, Unloading, <<"A", "c", "t", "i", "v", "e">>}}
    \cup {[PlainLine EXCEPT !.address = <<>>]}
    \cup {[PlainLine EXCEPT !.trailing = t] : t \in {<<" ", "(", "O", "E", ")">>, <<" ", CR, "x">>}}
    \cup {[PlainLine EXCEPT !.ending = e] : e \in {<<CR, LF>>, <<>>}}
    \cup {[PlainLine EXCEPT !.gap = <<" ", " ">>]}

\* The listings: only the last line can lack its line break.
Listings ==
    {ls \in SeqUpTo(LineChoices, MaxLines) :
        \A i \in 1..(Len(ls) - 1) : ls[i].ending # <<>>}

ListingInit ==
    /\ lines \in Listings
    /\ data = ListingText(lines)
    /\ modules = <<>>
    /\ lpc = "parsing"
    /\ all_modules = <<>> /\ for_module_name = "" /\ rpc = "idle"
    /\ resolved = Aborted("not_called")
    /\ kernel_file = <<>> /\ modules_pattern = "" /\ candidates = <<>>
    /\ module_name = ""
    /\ next_entry = 0 /\ kernel_brief = <<>> /\ kernel_modules = <<>>
    /\ log = <<>> /\ module_tree = Aborted("not_called")
    /\ printed = <<>> /\ ipc = "idle"

ListingNext == ParseLine

SpecListing == ListingInit /\ [][ListingNext]_vars

(***************************************************************************)
(* Claims about the status-listing parser, checked under SpecListing.      *)
(***************************************************************************)
\* The field grammar of a status line, on the fields the line is written
\* from.
IsModuleName(t) ==
    /\ t # <<>>
    /\ t[1] \in Letters
    /\ \A i \in DOMAIN t : t[i] \in Alphanumerics \cup {"_"}
IsNumeral(t, max) ==
    /\ t # <<>>
    /\ \A i \in DOMAIN t : t[i] \in Digits
    /\ NumeralLeq(Canonical(t), max)
IsDependentsField(l) ==
    \/ l.dash
    \/ /\ \E i \in DOMAIN l.pieces : l.pieces[i] # <<>>
       /\ \A i \in DOMAIN l.pieces : l.pieces[i] = <<>> \/ IsModuleName(l.pieces[i])
IsStateToken(t) == t \in {Live, Loading, Unloading}
MatchesGrammarBesideState(l) ==
    /\ IsModuleName(l.name)
    /\ IsNumeral(l.size, U64Max)
    /\ IsNumeral(l.refs, U32Max)
    /\ IsDependentsField(l)
    /\ l.gap # <<>> /\ \A i \in DOMAIN l.gap : l.gap[i] = " "
    /\ l.address # <<>> /\ \A i \in DOMAIN l.address : l.address[i] \in Alphanumerics
    /\ \A i \in DOMAIN l.trailing : l.trailing[i] \notin {CR, LF}
    /\ (l.trailing # <<>> => l.trailing[1] \notin Alphanumerics)
    /\ l.ending \in {<<LF>>, <<CR, LF>>}
MatchesGrammar(l) == MatchesGrammarBesideState(l) /\ IsStateToken(l.state)

\* A line whose state field is an alphabetic token other than the three
\* states, its other fields matching the grammar.
HasUnknownState(l) ==
    /\ MatchesGrammarBesideState(l)
    /\ l.state # <<>> /\ \A i \in DOMAIN l.state : l.state[i] \in Letters
    /\ ~IsStateToken(l.state)

ParseEnded == lpc \in {"returned", "panicked"}

\* C7 as stated: a listing with a line of unknown state token, wherever the
\* line stands, ends in a Parse Error outcome and never in a panic.
C7_UnknownStateIsParseError ==
    (ParseEnded /\ \E i \in DOMAIN lines : HasUnknownState(lines[i]))
        => lpc = "parse_error"

\* C8 as stated: whenever the parse returns records, there is exactly one
\* record per line of the listing, in listing order.
C8_OneRecordPerLine ==
    lpc = "returned" =>
        /\ Len(modules) = Len(lines)
        /\ \A i \in DOMAIN modules : modules[i].name = lines[i].name

\* What the dependents field of a line stands for: None for the "-"
\* placeholder, else the non-empty pieces between the commas, in order.
ExpectedDependents(l) ==
    IF l.dash THEN None
    ELSE LET kept == {i \in DOMAIN l.pieces : l.pieces[i] # <<>>}
             nth(n) == CHOOSE i \in kept : Cardinality({j \in kept : j <= i}) = n
         IN Some([n \in 1..Cardinality(kept) |-> l.pieces[nth(n)]])

\* C9: a terminated line matching the grammar is parsed, and its record's
\* dependents is None exactly when the field is "-", and otherwise Some of
\* the field's comma-separated names in order without the empty pieces, each
\* entry a module name.
C9_DependentsField ==
    /\ \A i \in DOMAIN lines :
          (lpc = "returned" /\ \A j \in 1..i : MatchesGrammar(lines[j]))
              => i <= Len(modules)
    /\ \A i \in DOMAIN modules :
          MatchesGrammar(lines[i]) =>
              /\ modules[i].dependents = ExpectedDependents(lines[i])
              /\ (modules[i].dependents = None <=> lines[i].dash)
              /\ \A n \in DOMAIN modules[i].dependents.list :
                    IsModuleName(modules[i].dependents.list[n])

\* A record parsed from "b,c_2,": two names, the piece after the trailing
\* comma gone; and a record parsed from "-".
C9_Witness ==
    /\ lpc = "returned"
    /\ \E i, j \in DOMAIN modules :
          /\ MatchesGrammar(lines[i]) /\ MatchesGrammar(lines[j])
          /\ lines[i].pieces = <<<<"b">>, <<"c", "_", "2">>, <<>>>>
          /\ modules[i].dependents = Some(<<<<"b">>, <<"c", "_", "2">>>>)
          /\ lines[j].dash /\ modules[j].dependents = None

====
